---- MODULE Spec2Model ----
(***************************************************************************)
(* The stateful wallet of wallet-crypto/src/wallet.rs: sequential address  *)
(* generation on two chains, recognition of own addresses from the         *)
(* encrypted derivation path, and transaction building.                    *)
(*                                                                         *)
(* Cryptographic primitives (hdwallet, hdpayload), bip44::Addressing and   *)
(* tx::fee live outside wallet.rs; they are modelled symbolically: a key   *)
(* is the pair (seed, path) it was derived from, a ciphertext is the pair  *)
(* (key, plaintext), a digest is the tuple it was computed from.           *)
(***************************************************************************)
EXTENDS Integers, Sequences, FiniteSets

\* ------------------------------------------------------------------ bounds
\* highest index the model lets sequential generation reach from below
MaxIndex == 2
\* longest list of candidate inputs handed to new_transaction
MaxInputs == 2

\* the highest index below the hardened-derivation boundary 0x80000000
LastIndex == 2147483647

Seeds == {"seedA", "seedB"}

None == [tag |-> "None"]
Some(x) == [tag |-> "Some", val |-> x]
IsSome(o) == o.tag = "Some"

\* ------------------------------------------------------- bip44::Addressing
External == "External"
Internal == "Internal"

\* Addressing::new(account, typ): index 0 of the chain typ
AddressingNew(account, typ) ==
    [account |-> account, change |-> IF typ = Internal THEN 1 ELSE 0, index |-> 0]

\* Addressing::address_type
address_type(a) == IF a.change = 0 THEN External ELSE Internal

\* Addressing::incr: None when the index would reach the boundary
incr(a, n) ==
    IF n > LastIndex \/ a.index > LastIndex - n
    THEN None
    ELSE Some([a EXCEPT !.index = a.index + n])

\* Addressing::to_path: the raw derivation path <<account, change, index>>
to_path(a) == <<a.account, a.change, a.index>>

\* Addressing::from_path: None unless the path is a valid Addressing
from_path(p) ==
    IF Len(p) = 3 /\ p[1] = 0 /\ p[2] \in {0, 1} /\ p[3] >= 0 /\ p[3] <= LastIndex
    THEN Some([account |-> p[1], change |-> p[2], index |-> p[3]])
    ELSE None

\* ------------------------------------------------ hdwallet and hdpayload
\* XPrv::generate_from_seed
generate_from_seed(seed) == [seed |-> seed, path |-> <<>>]
\* XPrv::derive
derive(k, i) == [k EXCEPT !.path = Append(k.path, i)]
\* XPrv::public
public(k) == [xpub |-> k]
\* HDKey::new
HDKeyNew(xpub) == [hdkey |-> xpub]
\* HDKey::encrypt_path
encrypt_path(hdkey, path) == [key |-> hdkey, plain |-> path]
\* HDKey::decrypt_path: None when the blob was not encrypted under hdkey
decrypt_path(hdkey, blob) ==
    IF blob.key = hdkey THEN Some(blob.plain) ELSE None

\* --------------------------------------------------------------- address
ATPubKey == "ATPubKey"
ATScript == "ATScript"
PubKeyASD(pk) == [asd |-> "PubKeyASD", pk |-> pk]
\* Attributes::new_single_key
new_single_key(pk, hdap) == [derivation_path |-> hdap, stake_distribution |-> "BootstrapEra"]
\* ExtendedAddr::new: the address digest commits to type, spending data and attributes
ExtendedAddrNew(ty, sd, attrs) ==
    [addr |-> <<ty, sd, attrs>>, attributes |-> attrs, addr_type |-> ty]

\* ---------------------------------------------------------------- Wallet
VARIABLES
    wallet,     \* the Wallet struct
    panicked,   \* TRUE once a call has panicked (unwrap on None)
    last,       \* the last call: operation, arguments, result, cursors before it
    prev,       \* summary of the call before the last one
    run,        \* addresses returned by the new_address calls made since the
                \* wallet was created, while no other call intervened
    rewind,     \* a successful recognition that followed such a run, and the
                \* new_address call that followed the recognition
    gen         \* two generation calls taken statement by statement: where each
                \* caller is, what it read, what it returned

vars == <<wallet, panicked, last, prev, run, rewind, gen>>

\* Wallet::new_from_seed
new_from_seed(seed) ==
    [seed |-> seed,
     last_known_address |-> None,
     last_known_change |-> None,
     config |-> "Config::default",
     selection_policy |-> "FirstMatchFirst"]

\* a setter that only ever raises the external cursor
force_last_known_address_max(w, addressing) ==
    IF IsSome(w.last_known_address) /\ w.last_known_address.val.index >= addressing.index
    THEN w
    ELSE [w EXCEPT !.last_known_address = Some(addressing)]

\* Wallet::force_last_known_address
force_last_known_address(w, addressing) ==
    [w EXCEPT !.last_known_address = Some(addressing)]

\* a setter that only ever raises the internal cursor
force_last_known_change_max(w, addressing) ==
    IF IsSome(w.last_known_change) /\ w.last_known_change.val.index >= addressing.index
    THEN w
    ELSE [w EXCEPT !.last_known_change = Some(addressing)]

\* Wallet::force_last_known_change
force_last_known_change(w, addressing) ==
    [w EXCEPT !.last_known_change = Some(addressing)]

\* get_root_key with the seed ignored: every wallet derives from one fixed seed
get_root_key_fixed(w) == generate_from_seed("seedA")

\* Wallet::get_root_key
get_root_key(w) == generate_from_seed(w.seed)

\* Wallet::get_hdkey
get_hdkey(w) == HDKeyNew(public(get_root_key(w)))

RECURSIVE Fold(_, _, _)
Fold(k, path, i) == IF i > Len(path) THEN k ELSE Fold(derive(k, path[i]), path, i + 1)

\* Wallet::get_xprv
get_xprv(w, addressing) == Fold(get_root_key(w), to_path(addressing), 1)

\* make_address encrypting the path of the external cursor when there is one
make_address_of_cursor(w, addressing) ==
    LET pk   == public(get_xprv(w, addressing))
        used == IF IsSome(w.last_known_address) THEN w.last_known_address.val ELSE addressing
        hdap == encrypt_path(get_hdkey(w), to_path(used))
        sd   == PubKeyASD(pk)
        attrs == new_single_key(pk, Some(hdap))
    IN  ExtendedAddrNew(ATPubKey, sd, attrs)

\* make_address encrypting the path of the chain's first addressing: the index is lost
make_address_index_lost(w, addressing) ==
    LET pk   == public(get_xprv(w, addressing))
        hdap == encrypt_path(get_hdkey(w),
                             to_path(AddressingNew(0, address_type(addressing))))
        sd   == PubKeyASD(pk)
        attrs == new_single_key(pk, Some(hdap))
    IN  ExtendedAddrNew(ATPubKey, sd, attrs)

\* Wallet::make_address
make_address(w, addressing) ==
    LET pk   == public(get_xprv(w, addressing))
        hdap == encrypt_path(get_hdkey(w), to_path(addressing))
        sd   == PubKeyASD(pk)
        attrs == new_single_key(pk, Some(hdap))
    IN  ExtendedAddrNew(ATPubKey, sd, attrs)

Panic == [tag |-> "Panic"]
Ret(v) == [tag |-> "Ret", val |-> v]
Ok(v) == [tag |-> "Ok", val |-> v]
Err(e) == [tag |-> "Err", err |-> e]

\* new_address that does not record the addressing it used
new_address_no_record(w) ==
    LET next == IF ~IsSome(w.last_known_address)
                THEN Some(AddressingNew(0, External))
                ELSE incr(w.last_known_address.val, 1)
    IN  IF ~IsSome(next)
        THEN [wallet |-> w, ret |-> Panic]
        ELSE [wallet |-> w, ret |-> Ret(make_address(w, next.val))]

\* Wallet::new_address: the wallet after the call and what the call returned
new_address(w) ==
    LET next == IF ~IsSome(w.last_known_address)
                THEN Some(AddressingNew(0, External))
                ELSE incr(w.last_known_address.val, 1)
    IN  IF ~IsSome(next)
        THEN [wallet |-> w, ret |-> Panic]
        ELSE [wallet |-> force_last_known_address(w, next.val),
              ret |-> Ret(make_address(w, next.val))]

\* Wallet::new_change
new_change(w) ==
    LET next == IF ~IsSome(w.last_known_change)
                THEN Some(AddressingNew(0, Internal))
                ELSE incr(w.last_known_change.val, 1)
    IN  IF ~IsSome(next)
        THEN [wallet |-> w, ret |-> Panic]
        ELSE [wallet |-> force_last_known_address(w, next.val),
              ret |-> Ret(make_address(w, next.val))]

\* wallet::Error
NotMyAddress_NoPayload == [error |-> "NotMyAddress_NoPayload"]
NotMyAddress_CannotDecodePayload == [error |-> "NotMyAddress_CannotDecodePayload"]
NotMyAddress_NotMyPublicKey == [error |-> "NotMyAddress_NotMyPublicKey"]
NotMyAddress_InvalidAddressing == [error |-> "NotMyAddress_InvalidAddressing"]
\* a conversion that drops the algorithm's error
FeeCalculationErrorDropped(j) == [error |-> "FeeCalculationError", inner |-> "NoInputs"]

\* impl From<tx::fee::Error> for Error
FeeCalculationError(j) == [error |-> "FeeCalculationError", inner |-> j]

\* recognize_address parsing the payload before it checks that it decrypted
recognize_address_parse_first(w, addr) ==
    LET hdkey == get_hdkey(w)
        hdpa  == addr.attributes.derivation_path
        path  == decrypt_path(hdkey, hdpa.val)
        parsed == IF IsSome(path) THEN from_path(path.val) ELSE None
        addressing == parsed.val
        xpub  == public(get_xprv(w, addressing))
        addr2 == ExtendedAddrNew(addr.addr_type, PubKeyASD(xpub), addr.attributes)
    IN  IF ~IsSome(hdpa)
        THEN [wallet |-> w, ret |-> Err(NotMyAddress_NoPayload)]
        ELSE IF ~IsSome(parsed)
        THEN [wallet |-> w, ret |-> Err(NotMyAddress_InvalidAddressing)]
        ELSE IF addr # addr2
        THEN [wallet |-> w, ret |-> Err(NotMyAddress_NotMyPublicKey)]
        ELSE IF address_type(addressing) = Internal
        THEN [wallet |-> force_last_known_change(w, addressing), ret |-> Ok(addressing)]
        ELSE [wallet |-> force_last_known_address(w, addressing), ret |-> Ok(addressing)]

\* recognize_address recording the recovered addressing before it compares the addresses
recognize_address_record_first(w, addr) ==
    LET hdkey == get_hdkey(w)
        hdpa  == addr.attributes.derivation_path
        path  == decrypt_path(hdkey, hdpa.val)
        addressing == from_path(path.val).val
        xpub  == public(get_xprv(w, addressing))
        addr2 == ExtendedAddrNew(addr.addr_type, PubKeyASD(xpub), addr.attributes)
        w2    == IF address_type(addressing) = Internal
                 THEN force_last_known_change(w, addressing)
                 ELSE force_last_known_address(w, addressing)
    IN  IF ~IsSome(hdpa)
        THEN [wallet |-> w, ret |-> Err(NotMyAddress_NoPayload)]
        ELSE IF ~IsSome(path)
        THEN [wallet |-> w, ret |-> Err(NotMyAddress_CannotDecodePayload)]
        ELSE IF ~IsSome(from_path(path.val))
        THEN [wallet |-> w, ret |-> Err(NotMyAddress_InvalidAddressing)]
        ELSE IF addr # addr2
        THEN [wallet |-> w2, ret |-> Err(NotMyAddress_NotMyPublicKey)]
        ELSE [wallet |-> w2, ret |-> Ok(addressing)]

\* Wallet::recognize_address: the wallet after the call and what the call returned
recognize_address(w, addr) ==
    LET hdkey == get_hdkey(w)
        hdpa  == addr.attributes.derivation_path
        path  == decrypt_path(hdkey, hdpa.val)
        addressing == from_path(path.val).val
        xpub  == public(get_xprv(w, addressing))
        addr2 == ExtendedAddrNew(addr.addr_type, PubKeyASD(xpub), addr.attributes)
    IN  IF ~IsSome(hdpa)
        THEN [wallet |-> w, ret |-> Err(NotMyAddress_NoPayload)]
        ELSE IF ~IsSome(path)
        THEN [wallet |-> w, ret |-> Err(NotMyAddress_CannotDecodePayload)]
        ELSE IF ~IsSome(from_path(path.val))
        THEN [wallet |-> w, ret |-> Err(NotMyAddress_InvalidAddressing)]
        ELSE IF addr # addr2
        THEN [wallet |-> w, ret |-> Err(NotMyAddress_NotMyPublicKey)]
        ELSE IF address_type(addressing) = Internal
        THEN [wallet |-> force_last_known_change(w, addressing), ret |-> Ok(addressing)]
        ELSE [wallet |-> force_last_known_address(w, addressing), ret |-> Ok(addressing)]

\* Wallet::recognize_input
recognize_input(w, input) == recognize_address(w, input.value.address)

\* ---------------------------------------------------------------- tx, fee
TxOut(address, value) == [address |-> address, value |-> value]
Input(ptr, value) == [ptr |-> ptr, value |-> value]
TxNewWith(inputs, outputs) == [inputs |-> inputs, outputs |-> outputs]
add_output(tx, o) == [tx EXCEPT !.outputs = Append(tx.outputs, o)]
TxInWitnessNew(cfg, key, tx) == [cfg |-> cfg, key |-> key, signed |-> tx]
TxAuxNew(tx, witnesses) == [tx |-> tx, witnesses |-> witnesses]

RECURSIVE OutputsTotal(_, _)
\* the sum of the values of the first n outputs
OutputsTotal(outputs, n) ==
    IF n = 0 THEN 0 ELSE OutputsTotal(outputs, n - 1) + outputs[n].value

RECURSIVE InputsTotal(_, _)
\* the sum of the values of the first n inputs
InputsTotal(inputs, n) ==
    IF n = 0 THEN 0 ELSE InputsTotal(inputs, n - 1) + inputs[n].value.value

\* LinearFee: fee = constant + coefficient * size
LinearFeeConstant == 1
LinearFeeCoefficient == 1
estimate(n) == LinearFeeConstant + LinearFeeCoefficient * n

\* tx::fee::Algorithm::compute for LinearFee under SelectionPolicy::FirstMatchFirst:
\* take inputs in order until they cover the outputs and the fee
compute(policy, inputs, outputs, change_addr, fee_addr) ==
    LET out_value == OutputsTotal(outputs, Len(outputs))
        enough(k) == InputsTotal(inputs, k) >= out_value + estimate(k)
        ks == {k \in 1..Len(inputs) : enough(k)}
        k  == CHOOSE x \in ks : \A y \in ks : x <= y
    IN  IF inputs = <<>> THEN Err("NoInputs")
        ELSE IF outputs = <<>> THEN Err("NoOutputs")
        ELSE IF ks = {} THEN Err("NotEnoughInput")
        ELSE Ok([fee |-> estimate(k),
                 selected_inputs |-> SubSeq(inputs, 1, k),
                 change |-> InputsTotal(inputs, k) - out_value - estimate(k)])

\* the draft with the change output added before the fee output
draft_tx_swapped(selected_inputs, outputs, fee_addr, fee, change_addr, change) ==
    LET tx0 == TxNewWith([i \in 1..Len(selected_inputs) |-> selected_inputs[i].ptr], outputs)
        tx1 == add_output(tx0, TxOut(change_addr, change))
    IN  add_output(tx1, TxOut(fee_addr, fee))

\* the draft transaction of new_transaction: the selected inputs' references, the
\* requested outputs, then the fee output, then the change output
draft_tx(selected_inputs, outputs, fee_addr, fee, change_addr, change) ==
    LET tx0 == TxNewWith([i \in 1..Len(selected_inputs) |-> selected_inputs[i].ptr], outputs)
        tx1 == add_output(tx0, TxOut(fee_addr, fee))
    IN  add_output(tx1, TxOut(change_addr, change))

RECURSIVE SignInputsSkip(_, _, _, _, _)
\* the loop passing over an input that is not recognised instead of failing
SignInputsSkip(w, selected_inputs, i, tx, witnesses) ==
    IF i > Len(selected_inputs)
    THEN [wallet |-> w, ret |-> Ok(TxAuxNew(tx, witnesses)), recognized |-> i - 1]
    ELSE LET r == recognize_input(w, selected_inputs[i])
         IN  IF r.ret.tag = "Err"
             THEN SignInputsSkip(r.wallet, selected_inputs, i + 1, tx, witnesses)
             ELSE LET key == get_xprv(r.wallet, r.ret.val)
                  IN  SignInputsSkip(r.wallet, selected_inputs, i + 1, tx,
                                 Append(witnesses, TxInWitnessNew(r.wallet.config, key, tx)))

RECURSIVE SignInputsRootKey(_, _, _, _, _)
\* the loop signing every input with the root key instead of the derived key
SignInputsRootKey(w, selected_inputs, i, tx, witnesses) ==
    IF i > Len(selected_inputs)
    THEN [wallet |-> w, ret |-> Ok(TxAuxNew(tx, witnesses)), recognized |-> i - 1]
    ELSE LET r == recognize_input(w, selected_inputs[i])
         IN  IF r.ret.tag = "Err"
             THEN [wallet |-> r.wallet, ret |-> r.ret, recognized |-> i]
             ELSE LET key == get_root_key(r.wallet)
                  IN  SignInputsRootKey(r.wallet, selected_inputs, i + 1, tx,
                                 Append(witnesses, TxInWitnessNew(r.wallet.config, key, tx)))

RECURSIVE SignInputs(_, _, _, _, _)
\* the loop of new_transaction over the selected inputs, from input i on
SignInputs(w, selected_inputs, i, tx, witnesses) ==
    IF i > Len(selected_inputs)
    THEN [wallet |-> w, ret |-> Ok(TxAuxNew(tx, witnesses)), recognized |-> i - 1]
    ELSE LET r == recognize_input(w, selected_inputs[i])
         IN  IF r.ret.tag = "Err"
             THEN [wallet |-> r.wallet, ret |-> r.ret, recognized |-> i]
             ELSE LET key == get_xprv(r.wallet, r.ret.val)
                  IN  SignInputs(r.wallet, selected_inputs, i + 1, tx,
                                 Append(witnesses, TxInWitnessNew(r.wallet.config, key, tx)))

\* new_transaction restoring the wallet it was called on when it fails
new_transaction_rollback(w, inputs, outputs, fee_addr) ==
    LET c   == new_change(w)
        alg == compute(c.wallet.selection_policy, inputs, outputs, c.ret.val, fee_addr)
        tx  == draft_tx(alg.val.selected_inputs, outputs, fee_addr, alg.val.fee,
                        c.ret.val, alg.val.change)
        s   == SignInputs(c.wallet, alg.val.selected_inputs, 1, tx, <<>>)
    IN  IF c.ret.tag = "Panic"
        THEN [wallet |-> w, ret |-> Panic, change_addr |-> None, alg |-> None, recognized |-> 0]
        ELSE IF alg.tag = "Err"
        THEN [wallet |-> w, ret |-> Err(FeeCalculationError(alg.err)),
              change_addr |-> Some(c.ret.val), alg |-> Some(alg), recognized |-> 0]
        ELSE [wallet |-> IF s.ret.tag = "Err" THEN w ELSE s.wallet, ret |-> s.ret,
              change_addr |-> Some(c.ret.val), alg |-> Some(alg), recognized |-> s.recognized]

\* Wallet::new_transaction: the wallet after the call, what the call returned, the
\* change address it generated, the algorithm's answer and how many inputs it
\* ran recognition on
new_transaction(w, inputs, outputs, fee_addr) ==
    LET c   == new_change(w)
        alg == compute(c.wallet.selection_policy, inputs, outputs, c.ret.val, fee_addr)
        tx  == draft_tx(alg.val.selected_inputs, outputs, fee_addr, alg.val.fee,
                        c.ret.val, alg.val.change)
        s   == SignInputs(c.wallet, alg.val.selected_inputs, 1, tx, <<>>)
    IN  IF c.ret.tag = "Panic"
        THEN [wallet |-> w, ret |-> Panic, change_addr |-> None, alg |-> None, recognized |-> 0]
        ELSE IF alg.tag = "Err"
        THEN [wallet |-> c.wallet, ret |-> Err(FeeCalculationError(alg.err)),
              change_addr |-> Some(c.ret.val), alg |-> Some(alg), recognized |-> 0]
        ELSE [wallet |-> s.wallet, ret |-> s.ret,
              change_addr |-> Some(c.ret.val), alg |-> Some(alg), recognized |-> s.recognized]

\* ------------------------------------------------- the calls' arguments
\* indexes the callers present: the low ones and the last one below the boundary
Indexes == (0..MaxIndex) \cup {LastIndex}
Addressings == {[account |-> 0, change |-> c, index |-> i] : c \in {0, 1}, i \in Indexes}

\* the address a wallet created from seed s makes for addressing a
AddrOf(s, a) == make_address(new_from_seed(s), a)

ExtAt(i) == [account |-> 0, change |-> 0, index |-> i]
IntAt(i) == [account |-> 0, change |-> 1, index |-> i]

\* addresses no wallet's factory makes, built from the parts of AddrOf(s, ExtAt(0))
NoPayloadAddr(s) ==
    LET a == AddrOf(s, ExtAt(0))
        attrs == [a.attributes EXCEPT !.derivation_path = None]
    IN  ExtendedAddrNew(ATPubKey, a.addr[2], attrs)
BadPathAddr(s) ==
    LET a == AddrOf(s, ExtAt(0))
        blob == encrypt_path(get_hdkey(new_from_seed(s)), <<0, 2, 0>>)
        attrs == [a.attributes EXCEPT !.derivation_path = Some(blob)]
    IN  ExtendedAddrNew(ATPubKey, a.addr[2], attrs)
WrongKeyAddr(s) ==
    LET a == AddrOf(s, ExtAt(0))
    IN  ExtendedAddrNew(ATPubKey, AddrOf(s, ExtAt(1)).addr[2], a.attributes)
ScriptTagAddr(s) ==
    LET a == AddrOf(s, ExtAt(0))
    IN  ExtendedAddrNew(ATScript, a.addr[2], a.attributes)

FactoryAddrs == {AddrOf(s, a) : s \in Seeds, a \in Addressings}
ForgedAddrs ==
    {NoPayloadAddr("seedA"), BadPathAddr("seedA"), WrongKeyAddr("seedA"), ScriptTagAddr("seedA")}
Candidates == FactoryAddrs \cup ForgedAddrs

\* the unspent outputs callers offer as candidate inputs
Pool ==
    { Input("txin1", TxOut(AddrOf("seedA", ExtAt(0)), 5)),
      Input("txin2", TxOut(AddrOf("seedA", IntAt(1)), 2)),
      Input("txin3", TxOut(AddrOf("seedB", ExtAt(1)), 5)) }

\* lists of at most MaxInputs different inputs of the pool
InputLists ==
    {<<>>} \cup UNION {{q \in [1..n -> Pool] : \A i, j \in 1..n : i # j => q[i] # q[j]}
                       : n \in 1..MaxInputs}

Payee1 == TxOut(AddrOf("seedB", ExtAt(0)), 1)
Payee2 == TxOut(AddrOf("seedA", ExtAt(1)), 2)
OutputLists == {<<>>, <<Payee1, Payee2>>}
FeeAddrs == {AddrOf("seedB", IntAt(MaxIndex))}

\* ----------------------------------------------------- history variables
NoInfo == [change_addr |-> None, alg |-> None, recognized |-> 0]
Call(op, arg, ret, before, info) ==
    [op |-> op, arg |-> arg, ret |-> ret, before |-> before, info |-> info]
NoCall == Call("none", None, None, None, NoInfo)

\* the inputs all spend from External-chain addresses of wallet w
AllExternal(w, inputs) ==
    \A n \in 1..Len(inputs) :
        \E i \in Indexes : inputs[n].value.address = make_address(w, ExtAt(i))

\* what the next call's claims need of a call
Summary(l) ==
    IF l.op = "new_change"
    THEN [op |-> l.op, tag |-> l.ret.tag, addr |-> l.ret, lkc |-> l.before.last_known_change,
          external |-> FALSE]
    ELSE IF l.op = "new_transaction"
    THEN [op |-> l.op, tag |-> l.ret.tag, addr |-> l.info.change_addr,
          lkc |-> l.before.last_known_change,
          external |-> /\ l.ret.tag = "Ok"
                       /\ AllExternal(l.before, l.info.alg.val.val.selected_inputs)]
    ELSE [op |-> "other", tag |-> "", addr |-> None, lkc |-> None, external |-> FALSE]

Broken == [fresh |-> FALSE, addrs |-> <<>>]

NoRewind == [stage |-> "idle", issued |-> <<>>, recovered |-> None, again |-> None]

Callers == {"caller1", "caller2"}
IdleCall == [pc |-> "idle", chain |-> External, addressing |-> None, ret |-> None]
NoGen == [call |-> [t \in Callers |-> IdleCall], start |-> None,
          overlapped |-> FALSE, mixed |-> FALSE]

\* ---------------------------------------------------------------- actions
\* sequential generation is followed from index 0 to MaxIndex and at the boundary
CanStep(cursor) ==
    IF IsSome(cursor)
    THEN cursor.val.index < MaxIndex \/ cursor.val.index = LastIndex
    ELSE TRUE

Init ==
    /\ wallet \in {new_from_seed(s) : s \in Seeds}
    /\ panicked = FALSE
    /\ last = NoCall
    /\ prev = Summary(NoCall)
    /\ run = [fresh |-> TRUE, addrs |-> <<>>]
    /\ rewind = NoRewind
    /\ gen = NoGen

NewAddress ==
    /\ ~panicked
    /\ CanStep(wallet.last_known_address)
    /\ LET r == new_address(wallet)
       IN  /\ wallet' = r.wallet
           /\ panicked' = (r.ret.tag = "Panic")
           /\ last' = Call("new_address", None, r.ret, wallet, NoInfo)
           /\ run' = IF run.fresh /\ r.ret.tag = "Ret"
                     THEN [run EXCEPT !.addrs = Append(@, r.ret.val)]
                     ELSE Broken
           /\ rewind' = IF rewind.stage = "back" /\ r.ret.tag = "Ret"
                        THEN [rewind EXCEPT !.stage = "again", !.again = Some(r.ret.val)]
                        ELSE NoRewind
    /\ prev' = Summary(last)
    /\ UNCHANGED gen

NewChange ==
    /\ ~panicked
    /\ CanStep(wallet.last_known_change)
    /\ LET r == new_change(wallet)
       IN  /\ wallet' = r.wallet
           /\ panicked' = (r.ret.tag = "Panic")
           /\ last' = Call("new_change", None, r.ret, wallet, NoInfo)
    /\ prev' = Summary(last)
    /\ UNCHANGED gen
    /\ run' = Broken
    /\ rewind' = NoRewind

ForceLastKnownAddress ==
    /\ ~panicked
    /\ \E a \in Addressings :
          /\ wallet' = force_last_known_address(wallet, a)
          /\ last' = Call("force_last_known_address", a, None, wallet, NoInfo)
    /\ prev' = Summary(last)
    /\ UNCHANGED gen
    /\ run' = Broken
    /\ rewind' = NoRewind
    /\ UNCHANGED panicked

ForceLastKnownChange ==
    /\ ~panicked
    /\ \E a \in Addressings :
          /\ wallet' = force_last_known_change(wallet, a)
          /\ last' = Call("force_last_known_change", a, None, wallet, NoInfo)
    /\ prev' = Summary(last)
    /\ UNCHANGED gen
    /\ run' = Broken
    /\ rewind' = NoRewind
    /\ UNCHANGED panicked

RecognizeAddress ==
    /\ ~panicked
    /\ \E addr \in Candidates :
          LET r == recognize_address(wallet, addr)
          IN  /\ wallet' = r.wallet
              /\ last' = Call("recognize_address", addr, r.ret, wallet, NoInfo)
              /\ rewind' = IF run.fresh /\ r.ret.tag = "Ok"
                           THEN [stage |-> "back", issued |-> run.addrs,
                                 recovered |-> Some(r.ret.val), again |-> None]
                           ELSE NoRewind
    /\ prev' = Summary(last)
    /\ UNCHANGED gen
    /\ run' = Broken
    /\ UNCHANGED panicked

NewTransaction ==
    /\ ~panicked
    /\ CanStep(wallet.last_known_change)
    /\ \E inputs \in InputLists, outputs \in OutputLists, fee_addr \in FeeAddrs :
          LET r == new_transaction(wallet, inputs, outputs, fee_addr)
          IN  /\ wallet' = r.wallet
              /\ panicked' = (r.ret.tag = "Panic")
              /\ last' = Call("new_transaction",
                              [inputs |-> inputs, outputs |-> outputs, fee_addr |-> fee_addr],
                              r.ret, wallet,
                              [change_addr |-> r.change_addr, alg |-> r.alg,
                               recognized |-> r.recognized])
    /\ prev' = Summary(last)
    /\ UNCHANGED gen
    /\ run' = Broken
    /\ rewind' = NoRewind

Next ==
    \/ NewAddress
    \/ NewChange
    \/ ForceLastKnownAddress
    \/ ForceLastKnownChange
    \/ RecognizeAddress
    \/ NewTransaction

Spec == Init /\ [][Next]_vars

\* ------------------------------------------------------------------ claims
OtherSeed(s) == CHOOSE t \in Seeds : t # s

\* C1: on a wallet fresh from new_from_seed, the new_address calls made with no
\* other call in between return the addresses of (External, 0), (External, 1), ...
\* in that order, and these addresses are pairwise different.
C1_SequentialReceiving ==
    run.fresh =>
        /\ \A i \in 1..Len(run.addrs) : run.addrs[i] = make_address(wallet, ExtAt(i - 1))
        /\ \A i, j \in 1..Len(run.addrs) : i # j => run.addrs[i] # run.addrs[j]

C1_Witness == run.fresh /\ Len(run.addrs) >= 3

\* C2: with the internal cursor empty, new_change returns the address of
\* (Internal, 0) and a second new_change right after it returns the address of
\* (Internal, 1), so the two calls return different addresses.
C2_ChangeAdvances ==
    (/\ prev.op = "new_change" /\ ~IsSome(prev.lkc)
     /\ last.op = "new_change") =>
        /\ prev.addr = Ret(make_address(wallet, IntAt(0)))
        /\ last.ret = Ret(make_address(wallet, IntAt(1)))
        /\ last.ret # prev.addr

\* C3: a generation call sets the cursor of its own chain to the addressing of
\* the address it returns and leaves the other cursor unchanged.
C3_OwnCursorOnly ==
    /\ (last.op = "new_change" /\ last.ret.tag = "Ret") =>
          /\ IsSome(wallet.last_known_change)
          /\ last.ret.val = make_address(wallet, wallet.last_known_change.val)
          /\ wallet.last_known_address = last.before.last_known_address
    /\ (last.op = "new_address" /\ last.ret.tag = "Ret") =>
          /\ IsSome(wallet.last_known_address)
          /\ last.ret.val = make_address(wallet, wallet.last_known_address.val)
          /\ wallet.last_known_change = last.before.last_known_change

\* C4: recognize_address applied by a wallet to the address its own make_address
\* builds for a valid addressing a returns Ok(a), whatever the cursors hold.
C4_RecognitionRoundTrip ==
    \A a \in Addressings :
        (last.op = "recognize_address" /\ last.arg = make_address(last.before, a))
            => last.ret = Ok(a)

C4_Witness ==
    /\ last.op = "recognize_address"
    /\ last.arg = make_address(last.before, IntAt(LastIndex))
    /\ IsSome(last.before.last_known_address)
    /\ IsSome(last.before.last_known_change)
    /\ last.before.last_known_change.val.index < LastIndex

\* C5: recognize_address applied to an address made by a wallet with another
\* seed returns CannotDecodePayload or NotMyPublicKey, never Ok, and leaves
\* both cursors unchanged.
C5_CrossWalletRejection ==
    \A a \in Addressings :
        (/\ last.op = "recognize_address"
         /\ last.arg = AddrOf(OtherSeed(last.before.seed), a)) =>
            /\ last.ret \in {Err(NotMyAddress_CannotDecodePayload),
                             Err(NotMyAddress_NotMyPublicKey)}
            /\ wallet.last_known_address = last.before.last_known_address
            /\ wallet.last_known_change = last.before.last_known_change

C5_Witness ==
    /\ last.op = "recognize_address"
    /\ last.arg = AddrOf(OtherSeed(last.before.seed), ExtAt(1))
    /\ last.ret.tag = "Err"
    /\ IsSome(wallet.last_known_address)
    /\ IsSome(wallet.last_known_change)

\* the change address new_transaction generates when called on wallet w
ChangeAddrOf(w) == new_change(w).ret.val

\* the answer of the fee algorithm to the last new_transaction call
LastCompute ==
    compute(last.before.selection_policy, last.arg.inputs, last.arg.outputs,
            ChangeAddrOf(last.before), last.arg.fee_addr)

\* C6: a bundle returned by new_transaction has as inputs the references of the
\* selected inputs in selection order, and as outputs the requested outputs in
\* their order, then the fee paid to the fee address, then the change paid to
\* the change address generated by that call, and nothing else.
C6_TransactionShape ==
    (last.op = "new_transaction" /\ last.ret.tag = "Ok") =>
        LET alg == LastCompute
            tx  == last.ret.val.tx
        IN  /\ alg.tag = "Ok"
            /\ tx.inputs = [i \in 1..Len(alg.val.selected_inputs) |->
                               alg.val.selected_inputs[i].ptr]
            /\ tx.outputs = last.arg.outputs \o
                  << [address |-> last.arg.fee_addr, value |-> alg.val.fee],
                     [address |-> ChangeAddrOf(last.before), value |-> alg.val.change] >>
            /\ last.info.change_addr = Some(ChangeAddrOf(last.before))

C6_Witness ==
    /\ last.op = "new_transaction" /\ last.ret.tag = "Ok"
    /\ Len(last.ret.val.tx.inputs) = 2
    /\ Len(last.arg.inputs) = 2
    /\ Len(last.ret.val.tx.outputs) = 4

\* C7: a bundle returned by new_transaction has one witness per input, the i-th
\* made with the key derived from the addressing recognition recovers for the
\* address the i-th input spends, over the complete draft transaction.
C7_WitnessPerInput ==
    (last.op = "new_transaction" /\ last.ret.tag = "Ok") =>
        LET b   == last.ret.val
            sel == LastCompute.val.selected_inputs
        IN  /\ Len(b.witnesses) = Len(b.tx.inputs)
            /\ Len(b.tx.inputs) = Len(sel)
            /\ Len(b.tx.outputs) = Len(last.arg.outputs) + 2
            /\ \A i \in 1..Len(sel) :
                  LET a == recognize_address(last.before, sel[i].value.address).ret.val
                  IN  b.witnesses[i] =
                         [cfg |-> last.before.config,
                          key |-> get_xprv(last.before, a),
                          signed |-> b.tx]

C7_Witness ==
    /\ last.op = "new_transaction" /\ last.ret.tag = "Ok"
    /\ Len(last.ret.val.witnesses) = 2
    /\ last.ret.val.witnesses[1].key # last.ret.val.witnesses[2].key

\* C8: when the fee algorithm fails, new_transaction returns FeeCalculationError
\* holding the algorithm's error, no bundle, and runs no recognition: the wallet
\* is as the change generation left it.
C8_FeeErrorPropagates ==
    (last.op = "new_transaction" /\ last.ret.tag # "Panic" /\ LastCompute.tag = "Err") =>
        /\ last.ret = [tag |-> "Err",
                       err |-> [error |-> "FeeCalculationError", inner |-> LastCompute.err]]
        /\ last.info.recognized = 0
        /\ wallet = new_change(last.before).wallet

C8_Witness ==
    /\ last.op = "new_transaction"
    /\ last.ret.tag = "Err"
    /\ last.ret.err = [error |-> "FeeCalculationError", inner |-> "NotEnoughInput"]
    /\ Len(last.arg.inputs) >= 1
    /\ \A i \in 1..Len(last.arg.inputs) :
          recognize_input(last.before, last.arg.inputs[i]).ret.tag = "Ok"

\* C9: a generation call on a chain whose cursor holds the last index returns
\* the error RangeExceeded, changes no cursor and leaves the wallet usable.
C9_RangeExceededIsAnError ==
    /\ (/\ last.op = "new_address"
        /\ IsSome(last.before.last_known_address)
        /\ last.before.last_known_address.val.index = LastIndex) =>
          /\ last.ret = Err([error |-> "RangeExceeded"])
          /\ wallet = last.before
          /\ ~panicked
    /\ (/\ last.op = "new_change"
        /\ IsSome(last.before.last_known_change)
        /\ last.before.last_known_change.val.index = LastIndex) =>
          /\ last.ret = Err([error |-> "RangeExceeded"])
          /\ wallet = last.before
          /\ ~panicked

\* C10: two successive successful new_transaction calls whose selected inputs
\* all spend External-chain addresses of the wallet pay their change to two
\* different addresses, the second one index above the first on the Internal
\* chain.
C10_FreshChangeAddress ==
    (/\ prev.op = "new_transaction" /\ prev.tag = "Ok" /\ prev.external
     /\ last.op = "new_transaction" /\ last.ret.tag = "Ok"
     /\ AllExternal(last.before, last.info.alg.val.val.selected_inputs)) =>
        /\ last.info.change_addr # prev.addr
        /\ \E i \in 0..MaxIndex :
              /\ prev.addr = Some(make_address(wallet, IntAt(i)))
              /\ last.info.change_addr = Some(make_address(wallet, IntAt(i + 1)))

\* C11: make_address depends on the seed and the addressing alone: in every state
\* it builds, for each addressing, the address a wallet fresh from the same seed
\* builds, whatever the cursors hold and whatever calls ran before; the address a
\* generation call returns is that address, and the call leaves the seed, the
\* configuration and the selection policy as they were.
C11_MakeAddressDeterministic ==
    /\ \A a \in Addressings : make_address(wallet, a) = AddrOf(wallet.seed, a)
    /\ (last.op \in {"new_address", "new_change"} /\ last.ret.tag = "Ret") =>
          /\ \E a \in Addressings : last.ret.val = AddrOf(last.before.seed, a)
          /\ wallet.seed = last.before.seed
          /\ wallet.config = last.before.config
          /\ wallet.selection_policy = last.before.selection_policy

C11_Witness ==
    /\ last.op = "new_address" /\ last.ret.tag = "Ret"
    /\ IsSome(last.before.last_known_address)
    /\ IsSome(last.before.last_known_change)
    /\ last.before.last_known_address.val # last.before.last_known_change.val

\* the outcome the four checks of recognition give, in their order, for wallet w
\* and candidate c
ExpectedOutcome(w, c) ==
    LET blob == c.attributes.derivation_path
        path == decrypt_path(get_hdkey(w), blob.val)
        a    == from_path(path.val)
        same == c = ExtendedAddrNew(c.addr_type, PubKeyASD(public(get_xprv(w, a.val))),
                                    c.attributes)
    IN  IF ~IsSome(blob) THEN "NotMyAddress_NoPayload"
        ELSE IF ~IsSome(path) THEN "NotMyAddress_CannotDecodePayload"
        ELSE IF ~IsSome(a) THEN "NotMyAddress_InvalidAddressing"
        ELSE IF ~same THEN "NotMyAddress_NotMyPublicKey"
        ELSE "Ok"

C13_OnlyFactoryAddresses ==
    (last.op = "recognize_address" /\ last.ret.tag = "Ok") =>
        last.arg = make_address(last.before, last.ret.val)

\* C14: a successful recognize_address recovering a replaces exactly one cursor by
\* a, the internal one when a is Internal and the external one otherwise,
\* whatever that cursor held, and changes nothing else of the wallet.
C14_RecognitionSetsOneCursor ==
    (last.op = "recognize_address" /\ last.ret.tag = "Ok") =>
        LET a == last.ret.val
        IN  wallet = IF address_type(a) = Internal
                     THEN [last.before EXCEPT !.last_known_change = Some(a)]
                     ELSE [last.before EXCEPT !.last_known_address = Some(a)]

C14_Witness ==
    /\ last.op = "recognize_address" /\ last.ret = Ok(IntAt(0))
    /\ IsSome(last.before.last_known_change)
    /\ last.before.last_known_change.val.index > 0
    /\ IsSome(last.before.last_known_address)
    /\ wallet.last_known_change = Some(IntAt(0))

\* the operations after which the cursors may differ from before
CursorWriters ==
    {"new_address", "new_change", "new_transaction", "recognize_address"}
CursorSetters == {"force_last_known_address", "force_last_known_change"}

CursorsChanged ==
    /\ last.op # "none"
    /\ \/ wallet.last_known_address # last.before.last_known_address
       \/ wallet.last_known_change # last.before.last_known_change

\* C15 as stated: a recognize_address that returns an error leaves the wallet
\* unchanged, and the cursors change only through generation calls and
\* successful recognitions.
C15_OnlyGenerationAndRecognition ==
    /\ (last.op = "recognize_address" /\ last.ret.tag = "Err") => wallet = last.before
    /\ CursorsChanged =>
          /\ last.op \in CursorWriters
          /\ last.op = "recognize_address" => last.ret.tag = "Ok"

\* C15 amended: a recognize_address that returns an error leaves the wallet
\* unchanged, and the cursors change only through generation calls, successful
\* recognitions, new_transaction (which runs both) and the two setters
\* force_last_known_address and force_last_known_change.
C15_FailedRecognitionChangesNothing ==
    /\ (last.op = "recognize_address" /\ last.ret.tag = "Err") => wallet = last.before
    /\ CursorsChanged =>
          /\ last.op \in CursorWriters \cup CursorSetters
          /\ last.op = "recognize_address" => last.ret.tag = "Ok"

C15_Witness ==
    /\ last.op = "recognize_address"
    /\ last.ret = Err(NotMyAddress_NotMyPublicKey)
    /\ IsSome(wallet.last_known_address)
    /\ wallet.last_known_address.val # ExtAt(0)

\* the recognition recorded in rewind recovered an External addressing below the
\* last one the run before it had issued
RewoundBelow ==
    /\ rewind.stage # "idle"
    /\ Len(rewind.issued) >= 2
    /\ address_type(rewind.recovered.val) = External
    /\ rewind.recovered.val.index < Len(rewind.issued) - 1

\* C16: after new_address has issued the addresses of (External, 0) .. (External, k),
\* k >= 1, a successful recognition of the address of (External, j), j < k, sets
\* the external cursor back to (External, j), and the next new_address returns
\* the address of (External, j + 1), which was issued before.
C16_CursorMovesBack ==
    /\ (RewoundBelow /\ rewind.stage = "back") =>
          wallet.last_known_address = Some(ExtAt(rewind.recovered.val.index))
    /\ (RewoundBelow /\ rewind.stage = "again") =>
          /\ rewind.again = Some(make_address(wallet, ExtAt(rewind.recovered.val.index + 1)))
          /\ rewind.again.val = rewind.issued[rewind.recovered.val.index + 2]

C16_Witness ==
    /\ RewoundBelow /\ rewind.stage = "again"
    /\ Len(rewind.issued) = 3
    /\ rewind.recovered.val.index = 0

\* the operations of the wallet without the two setters
NextApi ==
    \/ NewAddress
    \/ NewChange
    \/ RecognizeAddress
    \/ NewTransaction

SpecApi == Init /\ [][NextApi]_vars

\* C17: in every state reached from a fresh wallet by new_address, new_change,
\* recognize_address and new_transaction, the external cursor, when present, is
\* on the External chain and the internal cursor, when present, on the Internal
\* chain; new_address returns External-chain addresses and new_change
\* Internal-chain addresses.
C17_ChainsIndependent ==
    /\ IsSome(wallet.last_known_address) =>
          address_type(wallet.last_known_address.val) = External
    /\ IsSome(wallet.last_known_change) =>
          address_type(wallet.last_known_change.val) = Internal
    /\ (last.op = "new_address" /\ last.ret.tag = "Ret") =>
          \E a \in Addressings :
             address_type(a) = External /\ last.ret.val = make_address(wallet, a)
    /\ (last.op = "new_change" /\ last.ret.tag = "Ret") =>
          \E a \in Addressings :
             address_type(a) = Internal /\ last.ret.val = make_address(wallet, a)

\* the position of the first of the inputs sel whose address wallet w does not
\* recognise, 0 when it recognises them all
FirstFailure(w, sel) ==
    LET bad == {i \in 1..Len(sel) : recognize_address(w, sel[i].value.address).ret.tag = "Err"}
    IN  IF bad = {} THEN 0 ELSE CHOOSE i \in bad : \A j \in bad : i <= j

\* C18: when recognition fails for a selected input, at any position, the call
\* returns that recognition error and nothing else: no transaction, no witnesses.
C18_AllOrNothing ==
    (/\ last.op = "new_transaction" /\ last.ret.tag # "Panic"
     /\ LastCompute.tag = "Ok"
     /\ FirstFailure(last.before, LastCompute.val.selected_inputs) > 0) =>
        LET sel == LastCompute.val.selected_inputs
            i   == FirstFailure(last.before, sel)
        IN  /\ last.ret.tag = "Err"
            /\ last.ret = recognize_address(last.before, sel[i].value.address).ret
            /\ DOMAIN last.ret = {"tag", "err"}

C18_Witness ==
    /\ last.op = "new_transaction" /\ last.ret.tag = "Err"
    /\ LastCompute.tag = "Ok"
    /\ FirstFailure(last.before, LastCompute.val.selected_inputs) = 2

RECURSIVE AfterRecognitions(_, _, _)
\* wallet w after the recognition of the first n of the inputs sel, one after the other
AfterRecognitions(w, sel, n) ==
    IF n = 0 THEN w
    ELSE recognize_address(AfterRecognitions(w, sel, n - 1), sel[n].value.address).wallet

\* C19: a new_transaction that fails with FeeCalculationError leaves the wallet
\* as one new_change call leaves it, and one that fails at the recognition of the
\* i-th selected input leaves it as new_change followed by the recognitions of
\* inputs 1 .. i-1 leave it.
C19_NoRollback ==
    (last.op = "new_transaction" /\ last.ret.tag = "Err") =>
        LET w1 == new_change(last.before).wallet
        IN  IF LastCompute.tag = "Err"
            THEN wallet = w1
            ELSE LET sel == LastCompute.val.selected_inputs
                 IN  wallet = AfterRecognitions(w1, sel, FirstFailure(last.before, sel) - 1)

C19_Witness ==
    /\ last.op = "new_transaction" /\ last.ret.tag = "Err"
    /\ LastCompute.tag = "Ok"
    /\ FirstFailure(last.before, LastCompute.val.selected_inputs) = 2
    /\ ~IsSome(last.before.last_known_change)
    /\ wallet.last_known_change = Some(IntAt(1))
    /\ wallet.last_known_address = Some(IntAt(0))

\* ------------------------------------- generation, statement by statement
\* the wallets the calls below start from: either seed, any cursors
RaceInit ==
    /\ wallet \in {[new_from_seed(s) EXCEPT !.last_known_address = a, !.last_known_change = c] :
                     s \in Seeds,
                     a \in {None} \cup {Some(x) : x \in Addressings},
                     c \in {None} \cup {Some(x) : x \in Addressings}}
    /\ panicked = FALSE
    /\ last = NoCall
    /\ prev = Summary(NoCall)
    /\ run = Broken
    /\ rewind = NoRewind
    /\ gen = [NoGen EXCEPT !.start = Some(wallet)]

Busy(t) == gen.call[t].pc \in {"read", "written"}

\* new_address / new_change up to the end of the match: the cursor is read and the
\* next addressing computed (unwrap panics when there is none)
GenRead(t) ==
    /\ ~panicked
    /\ gen.call[t].pc = "idle"
    /\ \E chain \in {External, Internal} :
          LET r == IF chain = External THEN new_address(wallet) ELSE new_change(wallet)
              others == Callers \ {t}
          IN  IF r.ret.tag = "Panic"
              THEN /\ panicked' = TRUE
                   /\ gen' = [gen EXCEPT !.call[t].pc = "panicked", !.call[t].chain = chain]
              ELSE /\ panicked' = FALSE
                   /\ gen' = [gen EXCEPT
                         !.call[t] = [pc |-> "read", chain |-> chain,
                                      addressing |-> r.wallet.last_known_address,
                                      ret |-> None],
                         !.overlapped = @ \/ \E u \in others : gen.call[u].pc = "read",
                         !.mixed = @ \/ \E u \in others : Busy(u)]
    /\ UNCHANGED <<wallet, last, prev, run, rewind>>

\* the call of force_last_known_address with the addressing computed
GenWrite(t) ==
    /\ ~panicked
    /\ gen.call[t].pc = "read"
    /\ wallet' = force_last_known_address(wallet, gen.call[t].addressing.val)
    /\ gen' = [gen EXCEPT !.call[t].pc = "written"]
    /\ UNCHANGED <<panicked, last, prev, run, rewind>>

\* the final make_address, whose result the call returns
GenReturn(t) ==
    /\ ~panicked
    /\ gen.call[t].pc = "written"
    /\ gen' = [gen EXCEPT !.call[t].pc = "done",
                          !.call[t].ret = Some(make_address(wallet, gen.call[t].addressing.val))]
    /\ UNCHANGED <<wallet, panicked, last, prev, run, rewind>>

NextRace == \E t \in Callers : GenRead(t) \/ GenWrite(t) \/ GenReturn(t)

SpecRace == RaceInit /\ [][NextRace]_vars

CursorOf(w, chain) ==
    IF chain = External THEN w.last_known_address ELSE w.last_known_change

\* the cursor one generation call after cursor c on the chain
OneAbove(c, chain) ==
    IF IsSome(c) THEN incr(c.val, 1) ELSE Some(AddressingNew(0, chain))

BothDone(chain) ==
    \A t \in Callers : gen.call[t].pc = "done" /\ gen.call[t].chain = chain

\* two calls on the chain that both read the cursor before either wrote it returned
\* the same address and left the cursor one index higher; two calls made one
\* after the other returned different addresses
LostIncrementOn(chain) ==
    BothDone(chain) =>
        /\ gen.overlapped =>
              /\ gen.call["caller1"].ret = gen.call["caller2"].ret
              /\ CursorOf(wallet, chain) = OneAbove(CursorOf(gen.start.val, chain), chain)
        /\ ~gen.mixed => gen.call["caller1"].ret # gen.call["caller2"].ret

\* C20: generation reads, then writes the cursor: two calls on the same chain
\* that both read before either writes return the same address and the cursor
\* ends one index higher; calls that each run to completion before the next
\* starts never return the same address.
C20_LostIncrement == LostIncrementOn(External) /\ LostIncrementOn(Internal)

\* the same for the receiving chain alone
ReceivingLostIncrement == LostIncrementOn(External)

ReceivingOverlap == BothDone(External) /\ gen.overlapped

====
